---- MODULE Spec2Model ----
(***************************************************************************)
(* A model of the RabbitMQ consumer host of src/consumer/host.go:          *)
(* the connection loop, Run, the per-queue consumption loops with their    *)
(* consuming tasks and dead-letter tasks, Stop, the message pipeline       *)
(* (buildChain, panicHandler, errorHandler), and AddBroker with the        *)
(* goroutines Run starts per exchange.                                     *)
(***************************************************************************)
EXTENDS Integers, Sequences, FiniteSets, TLC

\* ------------------------------------------------------------------ bounds

\* Broker-side faults (connection drops, queue deletions, refused dials and
\* refused channels) that one behaviour may contain.
MaxFaults == 2

\* The queue keys returned by the consumers' Queues(); one consumption loop
\* is started per key.
Loops == {"q1"}

\* cfg.GetHasDeadletter() of the consumer that owns the key.
HasDeadletter(l) == l = "q1"

\* A loop acquires a new channel only after a broker fault closed or
\* cancelled the one before, so it acquires at most MaxFaults + 1 channels.
MaxGen == MaxFaults + 1

Gens == 1..MaxGen

\* The host middleware a program registers.
Mw == {"A", "B"}

\* The longest middleware list, and the most deliveries one task handles.
MaxMw == 3

MaxDeliveries == 2

\* The exchanges a program registers, and the rebuild cycles of one loop.
MaxExchanges == 2

MaxCycles == 2

\* The exchange names, and the consumer lists passed to AddBroker.
ExchangeNames == {"x1", "x2"}

ConsumerLists == {<<"c1">>, <<"c2">>, <<"c1", "c2">>}

\* c.Queues(ctx): the queue keys of a consumer.
Queues(c) == IF c = "c1" THEN {"k1"} ELSE {"k2", "k3"}

\* ------------------------------------------------------------------- state

VARIABLES
    connected,    \* h.connected
    shutdown,     \* h.shutdown
    connection,   \* h.connection: "nil", "cur" (the connection dialled last), "old" (an earlier one)
    brokerConn,   \* the connection dialled last: "none", "alive", "dead"
    closeSig,     \* h.connectionClose: "unsub", "none", "err" (an error to receive), "closed"
    connPc,       \* connectionLoop: "dial", "setconn", "sub", "recv"
    runPc,        \* Run: "idle", "setup", "blocked", "failed"
    mu,           \* h.mu: "free" or "stop" (held by Stop)
    channels,     \* h.channels: key -> generation of the registered channel, 0 for no entry
    wg,           \* h.wg's counter
    lp,           \* the consumption loop of each key
    gen,          \* the number of channels each loop has acquired
    chan,         \* the state of each channel a loop acquired
    cons,         \* the consuming task started on each channel
    dl,           \* the dead-letter task of each key
    stopPc,       \* Stop: "idle", "lock", "closing", "wait", "close", "returned"
    toClose,      \* the keys Stop's range over h.channels has not visited yet
    proc,         \* the process: "running", "fatal" (log.Fatal), "panic" (nil dereference)
    faults,       \* broker faults so far
    dialFails,    \* the dials that failed (and were logged) in the current call of connect()
    middleware,   \* h.middleware: the backing array, "nil" beyond the length
    mwLen,        \* len(h.middleware)
    taskPc,       \* a consuming task: "start", "ranging", "panic"
    handler,      \* the handler the task composed: its layers, outermost first
    inputs,       \* per delivery handled: what the handlers of the chain did
    traces,       \* per delivery handled: the handlers entered, in order
    outcomes,     \* per delivery handled: the acknowledgements it received
    exchanges,    \* h.exchanges: the registered exchanges with their consumers
    rangeIdx,     \* Run's range over h.exchanges: the iterations made
    b,            \* the range variable b: the index of its exchange, 0 before the range
    eg,           \* the goroutine Run started in each iteration
    loops,        \* the consumption loops started: by which goroutine, for which exchange name, consumer and key
    applied       \* per consuming task started: its loop, its cycle and the consumer whose Middleware it called

hostVars == <<connected, shutdown, connection, brokerConn, closeSig, connPc,
              runPc, mu, channels, wg, lp, gen, chan, cons, dl, stopPc,
              toClose, proc, faults, dialFails>>

pipeVars == <<middleware, mwLen, taskPc, handler, inputs, traces, outcomes>>

startVars == <<exchanges, rangeIdx, b, eg, loops, applied>>

vars == <<hostVars, pipeVars, startVars>>

\* What identifies a consumption loop: the goroutine that started it, the
\* exchange name n it captured, the consumer and the queue key.
LoopRecords ==
    [eg : 1..MaxExchanges, n : ExchangeNames, consumer : {"c1", "c2"},
     key : {"k1", "k2", "k3"}]

\* An iteration of Run's range that has not started its goroutine yet.
NoGoroutine == [pc |-> "none", n |-> "", ex |-> 0, ci |-> 0, c |-> ""]

ChanOpen(s) == s \in {"open", "cancelled"}

ChanClosed(s) == s \in {"closed_err", "closed_ok"}

\* The state after NewConsumerHost has returned: the connection loop has
\* received the constructor's amqp.ErrClosed and is about to dial.
Init ==
    /\ connected = FALSE
    /\ shutdown = FALSE
    /\ connection = "nil"
    /\ brokerConn = "none"
    /\ closeSig = "unsub"
    /\ connPc = "dial"
    /\ runPc = "idle"
    /\ mu = "free"
    /\ channels = [l \in Loops |-> 0]
    /\ wg = 0
    /\ lp = [l \in Loops |-> "unspawned"]
    /\ gen = [l \in Loops |-> 0]
    /\ chan = [l \in Loops |-> [g \in Gens |-> "none"]]
    /\ cons = [l \in Loops |-> [g \in Gens |-> "none"]]
    /\ dl = [l \in Loops |-> "none"]
    /\ stopPc = "idle"
    /\ toClose = {}
    /\ proc = "running"
    /\ faults = 0
    /\ dialFails = 0
    /\ middleware = <<>>
    /\ mwLen = 0
    /\ taskPc = "start"
    /\ handler = <<>>
    /\ inputs = <<>>
    /\ traces = <<>>
    /\ outcomes = <<>>
    /\ exchanges = <<>>
    /\ rangeIdx = 0
    /\ b = 0
    /\ eg = [i \in 1..MaxExchanges |-> NoGoroutine]
    /\ loops = {}
    /\ applied = {}

Running == proc = "running"

\* h.connection.Channel() can succeed: the handle is the live connection.
ConnUsable == connection = "cur" /\ brokerConn = "alive"

\* ------------------------------------------------- connect / connectionLoop

\* DialFail writing h.connected = true.
DialFailConnected ==
    /\ Running /\ connPc = "dial"
    /\ faults < MaxFaults
    /\ faults' = faults + 1
    /\ dialFails' = dialFails + 1
    /\ connected' = TRUE
    /\ UNCHANGED <<pipeVars, startVars>>
    /\ UNCHANGED <<shutdown, connection, brokerConn, closeSig, connPc,
                   runPc, mu, channels, wg, lp, gen, chan, cons, dl, stopPc,
                   toClose, proc>>

\* connect(): amqp.Dial fails; the error is logged and the dial is retried.
DialFail ==
    /\ Running /\ connPc = "dial"
    /\ faults < MaxFaults
    /\ faults' = faults + 1
    /\ dialFails' = dialFails + 1
    /\ UNCHANGED <<pipeVars, startVars>>
    /\ UNCHANGED <<connected, shutdown, connection, brokerConn, closeSig, connPc,
                   runPc, mu, channels, wg, lp, gen, chan, cons, dl, stopPc,
                   toClose, proc>>

\* connect(): amqp.Dial succeeds and h.connected = true is written; the
\* handle is stored by the next statement.  A handle stored earlier now
\* names an earlier connection.
DialOk ==
    /\ Running /\ connPc = "dial"
    /\ brokerConn' = "alive"
    /\ connected' = TRUE
    /\ connection' = IF connection = "nil" THEN "nil" ELSE "old"
    /\ connPc' = "setconn"
    /\ UNCHANGED <<pipeVars, startVars>>
    /\ UNCHANGED <<dialFails, shutdown, closeSig, runPc, mu, channels, wg, lp, gen, chan,
                   cons, dl, stopPc, toClose, proc, faults>>

\* connect(): h.connection = conn.
SetConnection ==
    /\ Running /\ connPc = "setconn"
    /\ connection' = "cur"
    /\ connPc' = "sub"
    /\ UNCHANGED <<pipeVars, startVars>>
    /\ UNCHANGED <<dialFails, connected, shutdown, brokerConn, closeSig, runPc, mu, channels,
                   wg, lp, gen, chan, cons, dl, stopPc, toClose, proc, faults>>

\* connectionLoop: h.connectionClose = make(...); h.connection.NotifyClose.
\* NotifyClose on a connection that is closed already closes the channel.
Subscribe ==
    /\ Running /\ connPc = "sub"
    /\ closeSig' = IF brokerConn = "alive" THEN "none" ELSE "closed"
    /\ connPc' = "recv"
    /\ UNCHANGED <<pipeVars, startVars>>
    /\ UNCHANGED <<dialFails, connected, shutdown, connection, brokerConn, runPc, mu,
                   channels, wg, lp, gen, chan, cons, dl, stopPc, toClose, proc,
                   faults>>

\* connectionLoop: a non-nil error is received from h.connectionClose;
\* h.connected = false and connect() is entered.  (A closed channel yields
\* nil, which the loop ignores.)
ConnectionLost ==
    /\ Running /\ connPc = "recv"
    /\ closeSig = "err"
    /\ closeSig' = "unsub"
    /\ connected' = FALSE
    /\ connPc' = "dial"
    /\ dialFails' = 0
    /\ UNCHANGED <<pipeVars, startVars>>
    /\ UNCHANGED <<shutdown, connection, brokerConn, runPc, mu, channels, wg, lp,
                   gen, chan, cons, dl, stopPc, toClose, proc, faults>>

\* Every open channel of a connection is closed with the connection.
CloseAllChannels(how) ==
    [l \in Loops |-> [g \in Gens |->
        IF ChanOpen(chan[l][g]) THEN how ELSE chan[l][g]]]

\* The broker (or the network) drops the live connection: its channels are
\* closed with an error and its NotifyClose listener is sent the error.
ConnDrop ==
    /\ Running /\ brokerConn = "alive"
    /\ faults < MaxFaults
    /\ faults' = faults + 1
    /\ brokerConn' = "dead"
    /\ chan' = CloseAllChannels("closed_err")
    /\ closeSig' = IF closeSig = "none" THEN "err" ELSE closeSig
    /\ UNCHANGED <<pipeVars, startVars>>
    /\ UNCHANGED <<dialFails, connected, shutdown, connection, connPc, runPc, mu, channels,
                   wg, lp, gen, cons, dl, stopPc, toClose, proc>>

\* ---------------------------------------------------------------------- Run

\* Run: for h.connection == nil {} is left.
RunStart ==
    /\ Running /\ runPc = "idle" /\ stopPc = "idle"
    /\ connection # "nil"
    /\ runPc' = "setup"
    /\ UNCHANGED <<pipeVars, startVars>>
    /\ UNCHANGED <<dialFails, connected, shutdown, connection, brokerConn, closeSig, connPc,
                   mu, channels, wg, lp, gen, chan, cons, dl, stopPc, toClose,
                   proc, faults>>

\* Run: the setup channel is requested; an error ends Run, otherwise the
\* exchanges are built, one goroutine per exchange is started, the setup
\* channel is closed and Run blocks on the signal channel.
RunSetup ==
    /\ Running /\ runPc = "setup"
    /\ runPc' = IF ConnUsable THEN "blocked" ELSE "failed"
    /\ UNCHANGED <<pipeVars, startVars>>
    /\ UNCHANGED <<dialFails, connected, shutdown, connection, brokerConn, closeSig, connPc,
                   mu, channels, wg, lp, gen, chan, cons, dl, stopPc, toClose,
                   proc, faults>>

\* The exchange goroutine reaches a queue of c.Queues(ctx): go func(key,
\* routes) for the consumption loop and, with GetHasDeadletter(), go func
\* for the dead-letter task.
Spawn(l) ==
    /\ Running /\ runPc = "blocked"
    /\ lp[l] = "unspawned"
    /\ lp' = [lp EXCEPT ![l] = "start"]
    /\ dl' = [dl EXCEPT ![l] = IF HasDeadletter(l) THEN "start" ELSE "none"]
    /\ UNCHANGED <<pipeVars, startVars>>
    /\ UNCHANGED <<dialFails, connected, shutdown, connection, brokerConn, closeSig, connPc,
                   runPc, mu, channels, wg, gen, chan, cons, stopPc, toClose,
                   proc, faults>>

\* ------------------------------------------------------- consumption loop

\* The loop's goroutine starts: h.wg.Add(1).
LoopAdd(l) ==
    /\ Running /\ lp[l] = "start"
    /\ wg' = wg + 1
    /\ lp' = [lp EXCEPT ![l] = "wait"]
    /\ UNCHANGED <<pipeVars, startVars>>
    /\ UNCHANGED <<dialFails, connected, shutdown, connection, brokerConn, closeSig, connPc,
                   runPc, mu, channels, gen, chan, cons, dl, stopPc, toClose,
                   proc, faults>>

\* if !h.connected { sleep; continue }: the loop goes on once it reads
\* h.connected as true.
LoopConnected(l) ==
    /\ Running /\ lp[l] = "wait"
    /\ connected
    /\ lp' = [lp EXCEPT ![l] = "acquire"]
    /\ UNCHANGED <<pipeVars, startVars>>
    /\ UNCHANGED <<dialFails, connected, shutdown, connection, brokerConn, closeSig, connPc,
                   runPc, mu, channels, wg, gen, chan, cons, dl, stopPc, toClose,
                   proc, faults>>

\* h.connection.Channel() returns an error (the handle names a closed
\* connection, or the broker refuses): log, sleep, continue.
LoopChannelErr(l) ==
    /\ Running /\ lp[l] = "acquire"
    /\ connection # "nil"
    /\ \/ ~ConnUsable /\ faults' = faults
       \/ ConnUsable /\ faults < MaxFaults /\ faults' = faults + 1
    /\ lp' = [lp EXCEPT ![l] = "wait"]
    /\ UNCHANGED <<pipeVars, startVars>>
    /\ UNCHANGED <<dialFails, connected, shutdown, connection, brokerConn, closeSig, connPc,
                   runPc, mu, channels, wg, gen, chan, cons, dl, stopPc, toClose,
                   proc>>

\* h.connection.Channel() returns a fresh channel (queueChannel).
LoopChannelOk(l) ==
    /\ Running /\ lp[l] = "acquire"
    /\ ConnUsable
    /\ gen[l] < MaxGen
    /\ gen' = [gen EXCEPT ![l] = gen[l] + 1]
    /\ chan' = [chan EXCEPT ![l][gen[l] + 1] = "open"]
    /\ lp' = [lp EXCEPT ![l] = "register"]
    /\ UNCHANGED <<pipeVars, startVars>>
    /\ UNCHANGED <<dialFails, connected, shutdown, connection, brokerConn, closeSig, connPc,
                   runPc, mu, channels, wg, cons, dl, stopPc, toClose, proc,
                   faults>>

\* h.mu.Lock(); h.channels[key] = queueChannel; h.mu.Unlock(); then
\* NotifyClose, NotifyCancel, cfg.BuildQueue (its result is not looked at)
\* and go func() for the consuming task; the loop then waits in select.
LoopRegister(l) ==
    /\ Running /\ lp[l] = "register"
    /\ mu = "free"
    /\ channels' = [channels EXCEPT ![l] = gen[l]]
    /\ cons' = [cons EXCEPT ![l][gen[l]] = "start"]
    /\ lp' = [lp EXCEPT ![l] = "select"]
    /\ UNCHANGED <<pipeVars, startVars>>
    /\ UNCHANGED <<dialFails, connected, shutdown, connection, brokerConn, closeSig, connPc,
                   runPc, mu, wg, gen, chan, dl, stopPc, toClose, proc, faults>>

\* AfterSignal without the h.shutdown test.
AfterSignalNoShutdownTest(l) == "delete"

\* What the loop does with a signal received in select: with h.shutdown it
\* returns (the deferred h.wg.Done() runs), otherwise it goes on to delete
\* its registry entry.
AfterSignal(l) == IF shutdown THEN "done" ELSE "delete"

\* case queueErr := <-closeChannel
LoopClosed(l) ==
    /\ Running /\ lp[l] = "select"
    /\ ChanClosed(chan[l][gen[l]])
    /\ lp' = [lp EXCEPT ![l] = AfterSignal(l)]
    /\ wg' = IF AfterSignal(l) = "done" THEN wg - 1 ELSE wg
    /\ UNCHANGED <<pipeVars, startVars>>
    /\ UNCHANGED <<dialFails, connected, shutdown, connection, brokerConn, closeSig, connPc,
                   runPc, mu, channels, gen, chan, cons, dl, stopPc, toClose,
                   proc, faults>>

\* case <-cancelChannel: the queue was deleted (a channel closed without an
\* error closes its cancel listeners too).
LoopCancelled(l) ==
    /\ Running /\ lp[l] = "select"
    /\ chan[l][gen[l]] \in {"cancelled", "closed_ok"}
    /\ lp' = [lp EXCEPT ![l] = AfterSignal(l)]
    /\ wg' = IF AfterSignal(l) = "done" THEN wg - 1 ELSE wg
    /\ UNCHANGED <<pipeVars, startVars>>
    /\ UNCHANGED <<dialFails, connected, shutdown, connection, brokerConn, closeSig, connPc,
                   runPc, mu, channels, gen, chan, cons, dl, stopPc, toClose,
                   proc, faults>>

\* h.mu.Lock(); delete(h.channels, key); h.mu.Unlock(); next iteration.
LoopDelete(l) ==
    /\ Running /\ lp[l] = "delete"
    /\ mu = "free"
    /\ channels' = [channels EXCEPT ![l] = 0]
    /\ lp' = [lp EXCEPT ![l] = "wait"]
    /\ UNCHANGED <<pipeVars, startVars>>
    /\ UNCHANGED <<dialFails, connected, shutdown, connection, brokerConn, closeSig, connPc,
                   runPc, mu, wg, gen, chan, cons, dl, stopPc, toClose, proc,
                   faults>>

\* The broker deletes the queue of a registered consumer: the consumer is
\* cancelled (its delivery stream ends) and the cancel listener is told.
\* The channel itself stays open.
QueueDeleted(l) ==
    /\ Running
    /\ gen[l] > 0
    /\ chan[l][gen[l]] = "open"
    /\ cons[l][gen[l]] \in {"ranging", "handling"}
    /\ faults < MaxFaults
    /\ faults' = faults + 1
    /\ chan' = [chan EXCEPT ![l][gen[l]] = "cancelled"]
    /\ UNCHANGED <<pipeVars, startVars>>
    /\ UNCHANGED <<dialFails, connected, shutdown, connection, brokerConn, closeSig, connPc,
                   runPc, mu, channels, wg, lp, gen, cons, dl, stopPc, toClose,
                   proc>>

\* ---------------------------------------------------------- consuming task

\* The consuming task's goroutine starts: h.wg.Add(1), then
\* queueChannel.Consume(...) on a channel that is closed: log.Fatal.
ConsumeErr(l, g) ==
    /\ Running /\ cons[l][g] = "start"
    /\ ChanClosed(chan[l][g])
    /\ wg' = wg + 1
    /\ proc' = "fatal"
    /\ UNCHANGED <<pipeVars, startVars>>
    /\ UNCHANGED <<dialFails, connected, shutdown, connection, brokerConn, closeSig, connPc,
                   runPc, mu, channels, lp, gen, chan, cons, dl, stopPc, toClose,
                   faults>>

\* The consuming task's goroutine starts: h.wg.Add(1), then
\* queueChannel.Consume(...) succeeds and h.buildChain composes the handler.
ConsumeOk(l, g) ==
    /\ Running /\ cons[l][g] = "start"
    /\ chan[l][g] = "open"
    /\ wg' = wg + 1
    /\ cons' = [cons EXCEPT ![l][g] = "ranging"]
    /\ UNCHANGED <<pipeVars, startVars>>
    /\ UNCHANGED <<dialFails, connected, shutdown, connection, brokerConn, closeSig, connPc,
                   runPc, mu, channels, lp, gen, chan, dl, stopPc, toClose, proc,
                   faults>>

\* for d := range msgs: a delivery arrives and the handler is called.
ConsDeliver(l, g) ==
    /\ Running /\ cons[l][g] = "ranging"
    /\ chan[l][g] = "open"
    /\ cons' = [cons EXCEPT ![l][g] = "handling"]
    /\ UNCHANGED <<pipeVars, startVars>>
    /\ UNCHANGED <<dialFails, connected, shutdown, connection, brokerConn, closeSig, connPc,
                   runPc, mu, channels, wg, lp, gen, chan, dl, stopPc, toClose,
                   proc, faults>>

\* panicHandler(middleware).HandleMessage returns.
ConsHandled(l, g) ==
    /\ Running /\ cons[l][g] = "handling"
    /\ cons' = [cons EXCEPT ![l][g] = "ranging"]
    /\ UNCHANGED <<pipeVars, startVars>>
    /\ UNCHANGED <<dialFails, connected, shutdown, connection, brokerConn, closeSig, connPc,
                   runPc, mu, channels, wg, lp, gen, chan, dl, stopPc, toClose,
                   proc, faults>>

\* msgs is closed (the channel was closed or the consumer was cancelled):
\* the range ends and the deferred h.wg.Done() runs.
ConsEnd(l, g) ==
    /\ Running /\ cons[l][g] = "ranging"
    /\ chan[l][g] # "open"
    /\ cons' = [cons EXCEPT ![l][g] = "done"]
    /\ wg' = wg - 1
    /\ UNCHANGED <<pipeVars, startVars>>
    /\ UNCHANGED <<dialFails, connected, shutdown, connection, brokerConn, closeSig, connPc,
                   runPc, mu, channels, lp, gen, chan, dl, stopPc, toClose, proc,
                   faults>>

\* ---------------------------------------------------------- dead-letter task

\* The dead-letter task's goroutine starts: h.wg.Add(1).
DlAdd(l) ==
    /\ Running /\ dl[l] = "start"
    /\ wg' = wg + 1
    /\ dl' = [dl EXCEPT ![l] = "top"]
    /\ UNCHANGED <<pipeVars, startVars>>
    /\ UNCHANGED <<dialFails, connected, shutdown, connection, brokerConn, closeSig, connPc,
                   runPc, mu, channels, lp, gen, chan, cons, stopPc, toClose,
                   proc, faults>>

\* Top of the task's loop: if h.shutdown { return }.
DlTop(l) ==
    /\ Running /\ dl[l] = "top"
    /\ dl' = [dl EXCEPT ![l] = IF shutdown THEN "done" ELSE "waitconn"]
    /\ wg' = IF shutdown THEN wg - 1 ELSE wg
    /\ UNCHANGED <<pipeVars, startVars>>
    /\ UNCHANGED <<dialFails, connected, shutdown, connection, brokerConn, closeSig, connPc,
                   runPc, mu, channels, lp, gen, chan, cons, stopPc, toClose,
                   proc, faults>>

\* for !h.connected { sleep } is left, and the one-second timer fires.
DlConnected(l) ==
    /\ Running /\ dl[l] = "waitconn"
    /\ connected
    /\ dl' = [dl EXCEPT ![l] = "chan"]
    /\ UNCHANGED <<pipeVars, startVars>>
    /\ UNCHANGED <<dialFails, connected, shutdown, connection, brokerConn, closeSig, connPc,
                   runPc, mu, channels, wg, lp, gen, chan, cons, stopPc, toClose,
                   proc, faults>>

\* h.connection.Channel() returns an error: log, sleep, break.  The break
\* leaves the for loop, the function returns and h.wg.Done() runs.
DlChannelErr(l) ==
    /\ Running /\ dl[l] = "chan"
    /\ connection # "nil"
    /\ \/ ~ConnUsable /\ faults' = faults
       \/ ConnUsable /\ faults < MaxFaults /\ faults' = faults + 1
    /\ dl' = [dl EXCEPT ![l] = "done"]
    /\ wg' = wg - 1
    /\ UNCHANGED <<pipeVars, startVars>>
    /\ UNCHANGED <<dialFails, connected, shutdown, connection, brokerConn, closeSig, connPc,
                   runPc, mu, channels, lp, gen, chan, cons, stopPc, toClose,
                   proc>>

\* h.connection.Channel() succeeds; cfg.BuildDeadletterQueue is called (an
\* error is logged); the timer is reset and the loop starts over.
DlBuild(l) ==
    /\ Running /\ dl[l] = "chan"
    /\ ConnUsable
    /\ dl' = [dl EXCEPT ![l] = "top"]
    /\ UNCHANGED <<pipeVars, startVars>>
    /\ UNCHANGED <<dialFails, connected, shutdown, connection, brokerConn, closeSig, connPc,
                   runPc, mu, channels, wg, lp, gen, chan, cons, stopPc, toClose,
                   proc, faults>>

\* --------------------------------------------------------------------- Stop

\* Stop is called (by Run on a signal, or by the program):
\* h.shutdown = true; h.connected = false.
StopCall ==
    /\ Running /\ stopPc = "idle"
    /\ shutdown' = TRUE
    /\ connected' = FALSE
    /\ stopPc' = "lock"
    /\ UNCHANGED <<pipeVars, startVars>>
    /\ UNCHANGED <<dialFails, connection, brokerConn, closeSig, connPc, runPc, mu, channels,
                   wg, lp, gen, chan, cons, dl, toClose, proc, faults>>

\* h.mu.Lock(); the range over h.channels starts.
StopLock ==
    /\ Running /\ stopPc = "lock"
    /\ mu = "free"
    /\ mu' = "stop"
    /\ toClose' = {l \in Loops : channels[l] # 0}
    /\ stopPc' = "closing"
    /\ UNCHANGED <<pipeVars, startVars>>
    /\ UNCHANGED <<dialFails, connected, shutdown, connection, brokerConn, closeSig, connPc,
                   runPc, channels, wg, lp, gen, chan, cons, dl, proc, faults>>

\* v.Close() for one entry of h.channels: an open channel is closed without
\* an error; for a closed one Close returns an error, which is logged.
StopCloseChannel(k) ==
    /\ Running /\ stopPc = "closing"
    /\ k \in toClose
    /\ chan' = [chan EXCEPT ![k][channels[k]] =
                   IF ChanOpen(@) THEN "closed_ok" ELSE @]
    /\ toClose' = toClose \ {k}
    /\ UNCHANGED <<pipeVars, startVars>>
    /\ UNCHANGED <<dialFails, connected, shutdown, connection, brokerConn, closeSig, connPc,
                   runPc, mu, channels, wg, lp, gen, cons, dl, stopPc, proc,
                   faults>>

\* The range is over: h.mu.Unlock().
StopUnlock ==
    /\ Running /\ stopPc = "closing"
    /\ toClose = {}
    /\ mu' = "free"
    /\ stopPc' = "wait"
    /\ UNCHANGED <<pipeVars, startVars>>
    /\ UNCHANGED <<dialFails, connected, shutdown, connection, brokerConn, closeSig, connPc,
                   runPc, channels, wg, lp, gen, chan, cons, dl, toClose, proc,
                   faults>>

\* h.wg.Wait() returns: the counter is zero.
StopWaited ==
    /\ Running /\ stopPc = "wait"
    /\ wg = 0
    /\ stopPc' = "close"
    /\ UNCHANGED <<pipeVars, startVars>>
    /\ UNCHANGED <<dialFails, connected, shutdown, connection, brokerConn, closeSig, connPc,
                   runPc, mu, channels, wg, lp, gen, chan, cons, dl, toClose,
                   proc, faults>>

\* h.connection.Close() with a nil handle: a nil dereference.
StopCloseNil ==
    /\ Running /\ stopPc = "close"
    /\ connection = "nil"
    /\ proc' = "panic"
    /\ UNCHANGED <<pipeVars, startVars>>
    /\ UNCHANGED <<dialFails, connected, shutdown, connection, brokerConn, closeSig, connPc,
                   runPc, mu, channels, wg, lp, gen, chan, cons, dl, stopPc,
                   toClose, faults>>

\* h.connection.Close(): the live connection is closed together with its
\* channels, and its NotifyClose listener is closed without an error; for a
\* handle that names a closed connection Close returns an error.  Stop
\* returns.
StopCloseConnection ==
    /\ Running /\ stopPc = "close"
    /\ connection # "nil"
    /\ IF ConnUsable
       THEN /\ brokerConn' = "dead"
            /\ chan' = CloseAllChannels("closed_ok")
            /\ closeSig' = IF closeSig = "none" THEN "closed" ELSE closeSig
       ELSE UNCHANGED <<brokerConn, chan, closeSig>>
    /\ stopPc' = "returned"
    /\ UNCHANGED <<pipeVars, startVars>>
    /\ UNCHANGED <<dialFails, connected, shutdown, connection, connPc, runPc, mu, channels,
                   wg, lp, gen, cons, dl, toClose, proc, faults>>

\* ------------------------------------------------------------ specification

Next ==
    \/ DialFail \/ DialOk \/ SetConnection \/ Subscribe \/ ConnectionLost
    \/ ConnDrop
    \/ RunStart \/ RunSetup
    \/ \E l \in Loops :
        \/ Spawn(l)
        \/ LoopAdd(l) \/ LoopConnected(l)
        \/ LoopChannelErr(l) \/ LoopChannelOk(l) \/ LoopRegister(l)
        \/ LoopClosed(l) \/ LoopCancelled(l) \/ LoopDelete(l)
        \/ QueueDeleted(l)
        \/ DlAdd(l) \/ DlTop(l) \/ DlConnected(l)
        \/ DlChannelErr(l) \/ DlBuild(l)
        \/ StopCloseChannel(l)
        \/ \E g \in Gens :
            \/ ConsumeErr(l, g) \/ ConsumeOk(l, g)
            \/ ConsDeliver(l, g) \/ ConsHandled(l, g) \/ ConsEnd(l, g)
    \/ StopCall \/ StopLock \/ StopUnlock \/ StopWaited \/ StopCloseNil
    \/ StopCloseConnection

Spec == Init /\ [][Next]_vars

\* The steps of the host's own goroutines.  The Go scheduler runs every
\* runnable goroutine eventually, a call into the library returns, and a
\* handler called for a delivery returns; the broker's faults, the arrival
\* of deliveries and the calls of Run and Stop are not forced.
Fairness ==
    /\ WF_vars(DialOk) /\ WF_vars(SetConnection) /\ WF_vars(Subscribe)
    /\ WF_vars(ConnectionLost)
    /\ WF_vars(RunSetup)
    /\ WF_vars(StopLock) /\ WF_vars(StopUnlock) /\ WF_vars(StopWaited)
    /\ WF_vars(StopCloseNil \/ StopCloseConnection)
    /\ \A l \in Loops :
        /\ WF_vars(Spawn(l))
        /\ WF_vars(LoopAdd(l)) /\ WF_vars(LoopConnected(l))
        /\ WF_vars(LoopChannelErr(l) \/ LoopChannelOk(l))
        /\ WF_vars(LoopRegister(l))
        /\ WF_vars(LoopClosed(l) \/ LoopCancelled(l))
        /\ WF_vars(LoopDelete(l))
        /\ WF_vars(DlAdd(l)) /\ WF_vars(DlTop(l)) /\ WF_vars(DlConnected(l))
        /\ WF_vars(DlChannelErr(l) \/ DlBuild(l))
        /\ WF_vars(StopCloseChannel(l))
        /\ \A g \in Gens :
            /\ WF_vars(ConsumeErr(l, g) \/ ConsumeOk(l, g))
            /\ WF_vars(ConsHandled(l, g))
            /\ WF_vars(ConsEnd(l, g))

FairSpec == Spec /\ Fairness

\* ------------------------------------------------------------------ pipeline

\* The capacities append may give a reallocated slice: twice the old
\* capacity, or what is needed when that is more, which the allocator may
\* round up to its next size class (an odd capacity above one).
GrowCaps(cap, need) ==
    LET base == IF need > 2 * cap THEN need ELSE 2 * cap
    IN  {base} \cup (IF base > 1 /\ base % 2 = 1 THEN {base + 1} ELSE {})

\* append(h.middleware, fn...) giving a backing array of capacity newCap
\* (the capacity stays when the elements fit).
append(arr, len, fns, newCap) ==
    LET cap == IF len + Len(fns) <= Len(arr) THEN Len(arr) ELSE newCap
    IN  [i \in 1..cap |->
            IF i <= len THEN arr[i]
            ELSE IF i <= len + Len(fns) THEN fns[i - len]
            ELSE IF i <= Len(arr) THEN arr[i] ELSE "nil"]

\* Middleware(fn...): h.middleware = append(h.middleware, fn...)
Middleware(fns) ==
    /\ taskPc = "start"
    /\ mwLen + Len(fns) <= MaxMw
    /\ \E newCap \in GrowCaps(Len(middleware), mwLen + Len(fns)) :
           middleware' = append(middleware, mwLen, fns, newCap)
    /\ mwLen' = mwLen + Len(fns)
    /\ UNCHANGED <<taskPc, handler, inputs, traces, outcomes>>
    /\ UNCHANGED <<hostVars, startVars>>

\* What buildChain yields when it calls a nil middleware.
NilCall == <<"nil call">>

\* buildChain wrapping in a loop, which puts the middleware registered last
\* outermost.
RECURSIVE buildChainLastOutermost(_, _, _)
buildChainLastOutermost(f, m, n) ==
    IF n = 0 THEN f
    ELSE IF m[1] = "nil" THEN NilCall
    ELSE buildChainLastOutermost(<<m[1]>> \o f, Tail(m), Len(m) - 1)

\* buildChain(f, m), m given by its backing array from its first element
\* on and its length n: f when n is 0, else m[0](buildChain(f,
\* m[1:cap(m)])).  A handler is the list of its layers, outermost first.
RECURSIVE buildChain(_, _, _)
buildChain(f, m, n) ==
    IF n = 0 THEN f
    ELSE LET inner == buildChain(f, Tail(m), Len(m) - 1)
         IN  IF inner = NilCall \/ m[1] = "nil" THEN NilCall
             ELSE <<m[1]>> \o inner

\* d.Ack(multiple) and d.Nack(multiple, requeue)
Ack(multiple) == [op |-> "ack", multiple |-> multiple, requeue |-> FALSE]

Nack(multiple, requeue) == [op |-> "nack", multiple |-> multiple, requeue |-> requeue]

\* errorHandler negatively acknowledging with requeue = true.
errorHandlerRequeue(in) ==
    [trace |-> <<"errorHandler", "DeliveryFunc">>,
     acks |-> IF in.result = "nil" THEN <<Ack(FALSE)>>
              ELSE IF in.result = "err" THEN <<Nack(FALSE, TRUE)>>
              ELSE <<>>,
     panicked |-> in.result = "panic"]

\* errorHandler(h): err := h(ctx, d); d.Nack(false, false) for an error,
\* d.Ack(false) for nil.  A panic of h leaves through errorHandler.
errorHandler(in) ==
    [trace |-> <<"errorHandler", "DeliveryFunc">>,
     acks |-> IF in.result = "nil" THEN <<Ack(FALSE)>>
              ELSE IF in.result = "err" THEN <<Nack(FALSE, FALSE)>>
              ELSE <<>>,
     panicked |-> in.result = "panic"]

\* The handler h called from its layer i on.  A middleware runs, calls the
\* handler it wraps and runs on; it may panic before or after that call.
RECURSIVE HandleMessage(_, _, _)
HandleMessage(h, i, in) ==
    IF h[i] = "errorHandler" THEN errorHandler(in)
    ELSE IF in.panicAt = i /\ in.when = "before"
    THEN [trace |-> <<h[i]>>, acks |-> <<>>, panicked |-> TRUE]
    ELSE LET r == HandleMessage(h, i + 1, in)
         IN  [trace |-> <<h[i]>> \o r.trace,
              acks |-> r.acks,
              panicked |-> r.panicked \/ (in.panicAt = i /\ in.when = "after")]

\* panicHandler without the recover(): the panic goes on to the caller.
panicHandlerNoRecover(h, in) ==
    LET r == HandleMessage(h, 1, in)
    IN  [trace |-> <<"panicHandler">> \o r.trace,
         acks |-> r.acks,
         panicked |-> r.panicked]

\* panicHandler(h): h(ctx, d) with a deferred recover(): a panic is logged,
\* d.Nack(false, false) is called, and the panic ends there.
panicHandler(h, in) ==
    LET r == HandleMessage(h, 1, in)
    IN  [trace |-> <<"panicHandler">> \o r.trace,
         acks |-> IF r.panicked THEN r.acks \o <<Nack(FALSE, FALSE)>> ELSE r.acks,
         panicked |-> FALSE]

\* The consuming task after Consume: middleware := h.buildChain(
\* c.Middleware(errorHandler(routes.DeliveryFunc)), h.middleware).  A nil
\* middleware called by buildChain panics outside panicHandler.
StartConsuming ==
    /\ taskPc = "start"
    /\ LET built == buildChain(<<"consumer", "errorHandler">>, middleware, mwLen)
       IN  IF built = NilCall
           THEN taskPc' = "panic" /\ handler' = handler
           ELSE taskPc' = "ranging" /\ handler' = built
    /\ UNCHANGED <<middleware, mwLen, inputs, traces, outcomes>>
    /\ UNCHANGED <<hostVars, startVars>>

\* What the handlers of a chain may do with one delivery: the business
\* handler returns nil or an error, or panics; one middleware (layer
\* panicAt, 0 for none) may panic before or after calling the next handler.
Inputs(h) ==
    [result : {"nil", "err", "panic"}, panicAt : {0}, when : {"before"}]
    \cup [result : {"nil", "err", "panic"}, panicAt : 1..(Len(h) - 1),
          when : {"before", "after"}]

\* for d := range msgs { panicHandler(middleware).HandleMessage(ctx, d) }:
\* one delivery.  A panic that leaves the handler ends the task.
Deliver(in) ==
    /\ taskPc = "ranging"
    /\ Len(inputs) < MaxDeliveries
    /\ LET r == panicHandler(handler, in)
       IN  /\ traces' = Append(traces, r.trace)
           /\ outcomes' = Append(outcomes, r.acks)
           /\ taskPc' = IF r.panicked THEN "panic" ELSE "ranging"
    /\ inputs' = Append(inputs, in)
    /\ UNCHANGED <<middleware, mwLen, handler>>
    /\ UNCHANGED <<hostVars, startVars>>

PipeNext ==
    \/ \E fns \in {<<f1>> : f1 \in Mw} \cup {<<f1, f2>> : f1 \in Mw, f2 \in Mw} :
           Middleware(fns)
    \/ StartConsuming
    \/ \E in \in Inputs(handler) : Deliver(in)

PipeSpec == Init /\ [][PipeNext]_vars

\* ------------------------------------------------- AddBroker and Run's start

\* AddBroker(ctx, cfg, consumers): h.exchanges = append(h.exchanges,
\* Exchange{cfg, consumers}).  Run ranges over the slice it finds.
AddBroker(name, consumers) ==
    /\ rangeIdx = 0
    /\ Len(exchanges) < MaxExchanges
    /\ exchanges' = Append(exchanges, [exchange |-> name, consumers |-> consumers])
    /\ UNCHANGED <<rangeIdx, b, eg, loops, applied>>
    /\ UNCHANGED <<hostVars, pipeVars>>

\* Run: one iteration of for _, b := range h.exchanges.  The range variable
\* b, one variable for all iterations, is assigned; n, declared in the body,
\* is the exchange's name; go func() starts the iteration's goroutine.
RunRange ==
    /\ rangeIdx < Len(exchanges)
    /\ rangeIdx' = rangeIdx + 1
    /\ b' = rangeIdx + 1
    /\ eg' = [eg EXCEPT ![rangeIdx + 1] =
                 [pc |-> "started", n |-> exchanges[rangeIdx + 1].exchange,
                  ex |-> 0, ci |-> 0, c |-> ""]]
    /\ UNCHANGED <<exchanges, loops, applied>>
    /\ UNCHANGED <<hostVars, pipeVars>>

\* The goroutine of iteration i evaluates the range expression b.consumers:
\* it reads b as it is when the goroutine gets to run.
ExchangeStart(i) ==
    /\ eg[i].pc = "started"
    /\ eg' = [eg EXCEPT ![i].pc = "ranging", ![i].ex = b]
    /\ UNCHANGED <<exchanges, rangeIdx, b, loops, applied>>
    /\ UNCHANGED <<hostVars, pipeVars>>

\* One iteration of for _, c := range b.consumers in goroutine i: the range
\* variable c, one variable for all iterations, is assigned; c.Init(); then
\* go func(key, routes) for every queue of c.Queues(ctx), with the key
\* passed as an argument and n captured.
ExchangeConsumer(i) ==
    /\ eg[i].pc = "ranging"
    /\ LET cs == exchanges[eg[i].ex].consumers
           j == eg[i].ci + 1
       IN  /\ eg' = [eg EXCEPT ![i].ci = j,
                               ![i].c = cs[j],
                               ![i].pc = IF j = Len(cs) THEN "done" ELSE "ranging"]
           /\ loops' = loops \cup
                  {[eg |-> i, n |-> eg[i].n, consumer |-> cs[j], key |-> k] :
                      k \in Queues(cs[j])}
    /\ UNCHANGED <<exchanges, rangeIdx, b, applied>>
    /\ UNCHANGED <<hostVars, pipeVars>>

\* The consuming task a loop starts in one of its cycles composes its
\* handler: c.Middleware(errorHandler(routes.DeliveryFunc)) reads the
\* captured variable c as it is when the task gets to run.
ConsumingTask(lr) ==
    /\ lr \in loops
    /\ LET cycles == Cardinality({a \in applied : a.loop = lr})
       IN  /\ cycles < MaxCycles
           /\ applied' = applied \cup
                  {[loop |-> lr, cycle |-> cycles + 1, mw |-> eg[lr.eg].c]}
    /\ UNCHANGED <<exchanges, rangeIdx, b, eg, loops>>
    /\ UNCHANGED <<hostVars, pipeVars>>

StartNext ==
    \/ \E name \in ExchangeNames, consumers \in ConsumerLists :
           AddBroker(name, consumers)
    \/ RunRange
    \/ \E i \in 1..MaxExchanges : ExchangeStart(i) \/ ExchangeConsumer(i)
    \/ \E lr \in LoopRecords : ConsumingTask(lr)

StartSpec == Init /\ [][StartNext]_vars

\* ==================================================================== claims

\* A panic was raised while delivery i was handled.
PanicRaised(i) == inputs[i].panicAt # 0 \/ inputs[i].result = "panic"

\* C1: every delivery handled by the composed handler has received exactly
\* one acknowledgement outcome, however the business handler ended and
\* wherever in the chain a panic was raised.
C1_ExactlyOneOutcome ==
    \A i \in 1..Len(outcomes) : Len(outcomes[i]) = 1

\* Where no middleware panics, a delivery does receive exactly one outcome,
\* whether the business handler returns nil, returns an error or panics.
OneOutcomeUnlessMiddlewarePanics ==
    \A i \in 1..Len(outcomes) : inputs[i].panicAt = 0 => Len(outcomes[i]) = 1

\* C2: once Stop has been called it returns (or the process has ended).
C2_StopReturns ==
    (stopPc # "idle") ~> (stopPc = "returned" \/ proc # "running")

\* C3: when Stop has returned, the channel registry has no entry.
C3_RegistryEmptyAfterStop ==
    stopPc = "returned" => \A l \in Loops : channels[l] = 0

\* C4: from the moment Stop has returned, h.connected is false and stays
\* false, and connect() makes no dial attempt.
C4_NoReconnectAfterStop ==
    [][stopPc = "returned" =>
          /\ ~connected /\ ~connected'
          /\ ~(DialOk \/ DialFail)]_vars

\* C5: when h.wg.Wait() in Stop has returned, every task that Run has
\* started has exited: no consumption loop, consuming task or dead-letter
\* task is running or about to call h.wg.Add(1).
C5_AllTasksExitedAfterWait ==
    stopPc \in {"close", "returned"} =>
        \A l \in Loops :
            /\ lp[l] \in {"unspawned", "done"}
            /\ dl[l] \in {"none", "done"}
            /\ \A g \in Gens : cons[l][g] \in {"none", "done"}

\* The loop of l waits in select on an open channel on which its consuming
\* task consumes.
Consuming(l) ==
    /\ lp[l] = "select"
    /\ chan[l][gen[l]] = "open"
    /\ cons[l][gen[l]] \in {"ranging", "handling"}

\* C6: a loop that has seen its channel closed or its queue cancelled with
\* h.shutdown false consumes again on a fresh channel (unless Stop is
\* called or the process ends in the meantime).
C6_ConsumesAgain ==
    \A l \in Loops :
        (lp[l] = "delete") ~> (Consuming(l) \/ shutdown \/ proc # "running")

\* C7: a loop that receives its channel-closed or queue-cancelled signal
\* while h.shutdown is true terminates on that step, and a terminated loop
\* stays terminated: it acquires no channel, registers nothing and starts
\* no consuming task.
C7_ShutdownEndsLoop ==
    [][\A l \in Loops :
          /\ (shutdown /\ lp[l] = "select" /\ lp'[l] # "select") =>
                 (lp'[l] = "done" /\ wg' = wg - 1)
          /\ lp[l] = "done" =>
                 /\ lp'[l] = "done"
                 /\ gen'[l] = gen[l]
                 /\ channels'[l] \in {channels[l], 0}
                 /\ \A g \in Gens : cons'[l][g] = "start" => cons[l][g] = "start"]_vars

C7_Witness ==
    \E l \in Loops :
        lp[l] = "done" /\ shutdown /\ gen[l] >= 1 /\ chan[l][gen[l]] = "closed_ok"

\* C8: where errorHandler was reached and the business handler returned,
\* its result decides the outcome: Ack(multiple = false) for nil and
\* Nack(multiple = false, requeue = false) for an error, that being the only
\* outcome when no middleware panicked; the task is alive afterwards.
C8_ResultDecidesOutcome ==
    \A i \in 1..Len(inputs) :
        (inputs[i].result # "panic" /\ traces[i][Len(traces[i])] = "DeliveryFunc") =>
            /\ outcomes[i] # <<>>
            /\ outcomes[i][1] =
                   IF inputs[i].result = "nil"
                   THEN [op |-> "ack", multiple |-> FALSE, requeue |-> FALSE]
                   ELSE [op |-> "nack", multiple |-> FALSE, requeue |-> FALSE]
            /\ inputs[i].panicAt = 0 => Len(outcomes[i]) = 1
            /\ taskPc = "ranging"

C8_Witness ==
    /\ Len(inputs) = 2
    /\ inputs[1].result = "err" /\ inputs[1].panicAt = 0
    /\ inputs[2].result = "nil" /\ inputs[2].panicAt = 0

\* C9: a delivery during whose handling a panic was raised has as its last
\* outcome Nack(multiple = false, requeue = false), and the consuming task
\* is alive afterwards.
C9_PanicContained ==
    \A i \in 1..Len(inputs) :
        PanicRaised(i) =>
            /\ outcomes[i] # <<>>
            /\ outcomes[i][Len(outcomes[i])] =
                   [op |-> "nack", multiple |-> FALSE, requeue |-> FALSE]
            /\ taskPc = "ranging"

C9_Witness ==
    /\ Len(inputs) = 2
    /\ inputs[1].result = "panic" /\ inputs[1].panicAt = 0
    /\ inputs[2].result = "nil"

\* The handlers a delivery passes when nothing panics.
FullOrder ==
    <<"panicHandler">> \o SubSeq(middleware, 1, mwLen)
        \o <<"consumer", "errorHandler", "DeliveryFunc">>

\* C10: for a list of up to two host middleware the handler is composed,
\* and a composed handler has the registered host middleware in
\* registration order, then the consumer's middleware, then errorHandler;
\* every delivery enters the handlers in the order panicHandler, host
\* middleware in registration order, consumer middleware, errorHandler,
\* business handler (up to the handler that panicked on entry).
C10_RegistrationOrder ==
    /\ mwLen <= 2 => taskPc # "panic"
    /\ taskPc = "ranging" =>
        /\ handler = SubSeq(middleware, 1, mwLen) \o <<"consumer", "errorHandler">>
        /\ \A i \in 1..Len(traces) :
               /\ Len(traces[i]) <= Len(FullOrder)
               /\ traces[i] = SubSeq(FullOrder, 1, Len(traces[i]))
               /\ (inputs[i].panicAt = 0 \/ inputs[i].when = "after") =>
                      traces[i] = FullOrder

C10_Witness ==
    /\ taskPc = "ranging"
    /\ mwLen = 2 /\ middleware[1] = "A" /\ middleware[2] = "B"
    /\ Len(traces) >= 1
    /\ traces[1] = <<"panicHandler", "A", "B", "consumer", "errorHandler", "DeliveryFunc">>

\* The loops Run has to start for the registered exchanges: one per queue of
\* each consumer of each exchange, with the exchange's name.
ExpectedLoops ==
    UNION {UNION {{[eg |-> i, n |-> exchanges[i].exchange,
                    consumer |-> exchanges[i].consumers[j], key |-> k] :
                       k \in Queues(exchanges[i].consumers[j])} :
                  j \in 1..Len(exchanges[i].consumers)} :
           i \in 1..Len(exchanges)}

\* C11: when Run has gone through the registered exchanges and every
\* goroutine it started has gone through its consumers, the loops started
\* are exactly one per queue of each consumer of each exchange, each with
\* the name of the exchange its consumer was registered under.
C11_EveryExchangeStarted ==
    (/\ rangeIdx = Len(exchanges)
     /\ \A i \in 1..Len(exchanges) : eg[i].pc = "done") =>
        loops = ExpectedLoops

\* C19: every consuming task, in every cycle of its loop, has called the
\* Middleware of the consumer whose Queues() returned the loop's key.
C19_OwnConsumerMiddleware ==
    \A a \in applied : a.mw = a.loop.consumer

\* C12: connect() dials again after every failed dial, and h.connected
\* becomes true only by a dial that succeeds: it is false as long as no dial
\* has succeeded and while connect() is dialling, a failed dial leaves it
\* false, and the dial that succeeds after k failed ones makes it true.
C12_ConnectedOnlyAfterDialSucceeds ==
    [][/\ brokerConn = "none" => ~connected
       /\ connPc = "dial" => ~connected
       /\ dialFails' = dialFails + 1 => (~connected' /\ connPc' = "dial")
       /\ (~connected /\ connected') =>
              (connPc = "dial" /\ brokerConn' = "alive" /\ dialFails' = dialFails)
       /\ (connPc = "dial" /\ connPc' # "dial") => connected']_vars

C12_Witness ==
    dialFails = 2 /\ connected /\ brokerConn = "alive" /\ connPc = "setconn"

\* The connection loop has subscribed to the closure notification of the
\* live connection and waits for it.
Resubscribed == brokerConn = "alive" /\ connPc = "recv" /\ closeSig = "none"

\* C13: whenever the connection dialled last has been closed, the connection
\* loop reconnects and subscribes to the new connection's closure
\* notification (unless Stop is called or the process ends in the meantime).
C13_ClosureHandled ==
    (brokerConn = "dead") ~> (Resubscribed \/ shutdown \/ proc # "running")

\* A channel acquired for a queue key is open only while the registry maps
\* the key to it, the window between Channel() and the insert included.
OpenOnlyWhileRegisteredStrict ==
    \A l \in Loops : \A g \in Gens :
        ChanOpen(chan[l][g]) => channels[l] = g

\* C14: a channel acquired for a queue key is open only while the registry
\* maps the key to it (the registry, a map, has at most one entry per key);
\* the channel a loop has just acquired and is about to insert is left out.
C14_OpenOnlyWhileRegistered ==
    \A l \in Loops : \A g \in Gens :
        (ChanOpen(chan[l][g]) /\ ~(lp[l] = "register" /\ g = gen[l])) =>
            channels[l] = g

\* C15: the registry changes only in a step that takes the free lock for
\* the change, and no channel is closed while the lock is held.
C15_LockOnlyForRegistryAccess ==
    [][/\ channels' # channels => mu = "free"
       /\ \A k \in Loops : StopCloseChannel(k) => mu = "free"]_vars

\* The registry changes only in a step that takes the free lock.
RegistryWrittenUnderLock == [][channels' # channels => mu = "free"]_vars

\* C16: a dead-letter task that has terminated has observed h.shutdown.
C16_DeadletterEndsOnlyOnShutdown ==
    \A l \in Loops : dl[l] = "done" => shutdown

\* C17: of the consuming tasks started for a queue, at most one is handling
\* a delivery.
C17_OneTaskHandling ==
    \A l \in Loops : Cardinality({g \in Gens : cons[l][g] = "handling"}) <= 1

\* C18: a consuming task that has called buildChain has got the handler
\* made of the registered host middleware in registration order around the
\* consumer's chain, whatever the capacity of the list's backing array.
C18_ChainOfRegisteredList ==
    taskPc # "start" =>
        /\ taskPc = "ranging"
        /\ handler = SubSeq(middleware, 1, mwLen) \o <<"consumer", "errorHandler">>

\* C20: no method is called on a nil connection handle: a loop or
\* dead-letter task about to call Channel(), Run about to request its setup
\* channel, the connection loop about to call NotifyClose and Stop about to
\* call Close() find h.connection set.
C20_HandleSetWhenUsed ==
    /\ proc # "panic"
    /\ (\/ runPc = "setup"
        \/ connPc = "sub"
        \/ stopPc = "close"
        \/ \E l \in Loops : lp[l] = "acquire" \/ dl[l] = "chan") =>
           connection # "nil"

\* Stop apart, every user of the handle finds it set.
HandleSetWhenUsedOutsideStop ==
    (\/ runPc = "setup"
     \/ connPc = "sub"
     \/ \E l \in Loops : lp[l] = "acquire" \/ dl[l] = "chan") =>
        connection # "nil"

====
